---------------------------- MODULE Spec2Model ----------------------------
(***************************************************************************)
(* A model of reddit/create_data.py: the comment normaliser                *)
(* (normalise_comment, _normalise_id, trim), the path builder              *)
(* (linear_paths), the example generator (create_examples, _should_skip)   *)
(* and the train/test split (_shuffle, _TrainTestSplitFn).                 *)
(*                                                                         *)
(* Strings are sequences of one-character strings.  Each component has a   *)
(* specification of its own; the variables of the other components keep    *)
(* their idle values in it.                                                *)
(***************************************************************************)
EXTENDS Integers, Sequences, FiniteSets, TLC

VARIABLES
    \* ---- normalise_comment / trim
    raw,            \* the raw record: [body, link_id, parent_id]
    max_length,     \* --max_length
    text,           \* trim's local variable `text`
    npc,            \* position in normalise_comment/trim
    comment,        \* the Comment returned, or NoValue
    \* ---- _normalise_id applied repeatedly
    raw_id,         \* the id string the run started from
    id_runs,        \* <<_normalise_id(raw_id), _normalise_id(of that), ...>>
    \* ---- create_examples / linear_paths on one thread
    thread,         \* the thread: a sequence of Comments, in iteration order
    id_to_comment,  \* create_examples' id_to_comment (line 145)
    parent_depth,   \* --parent_depth
    min_length,     \* --min_length
    tpc,            \* position in linear_paths
    id_to_children, \* linear_paths' id_to_children
    seen_ids,       \* linear_paths' seen_ids
    paths,          \* linear_paths' paths
    new_paths,      \* linear_paths' new_paths
    path_idx,       \* position of `for path in paths`
    child_idx,      \* position of `for child_id in id_to_children[last_id]`
    emitted,        \* the paths linear_paths has yielded, in order
    examples,       \* the examples create_examples has yielded, in order
    \* ---- _shuffle and _TrainTestSplitFn on a stream of examples
    stream,         \* the serialized examples, in their original order
    train_split,    \* --train_split, as a fraction [num, den]
    pass,           \* "original": the stream as it is; "shuffled": shuffled
    order,          \* the order in which this pass hands the examples over
    pos,            \* the next position of `order` to process
    tagged          \* the TaggedOutputs: [pass, index, tag]

nvars == <<raw, max_length, text, npc, comment>>
ivars == <<raw_id, id_runs>>
tvars == <<thread, id_to_comment, parent_depth, min_length, tpc,
           id_to_children, seen_ids, paths, new_paths, path_idx, child_idx,
           emitted, examples>>
svars == <<stream, train_split, pass, order, pos, tagged>>
vars == <<nvars, ivars, tvars, svars>>

NoValue == [none |-> TRUE]

-----------------------------------------------------------------------------
(* Bounds of the model. *)

\* longest raw body drawn
MaxBodyLen == 5
\* largest --max_length drawn
MaxMaxLength == 3
\* longest raw id drawn
MaxIdLen == 6
\* most comments in a thread of arbitrary shape
NumComments == 4
\* most comments in a thread of arbitrary bodies
NumTextComments == 3
\* largest --parent_depth drawn
MaxParentDepth == 3
\* longest stream of examples split
MaxStream == 3

-----------------------------------------------------------------------------
(* Strings. *)

\* the characters bodies are drawn from: two alphanumeric, two not
BodyChars == {"a", "1", " ", "."}
\* the characters raw ids are drawn from
IdChars == {"t", "1", "3", "_", "a"}

SeqsUpTo(S, n) == UNION {[1..k -> S] : k \in 0..n}

\* str.isalnum() of one character
isalnum(c) == c \in {"a", "b", "c", "t", "x", "0", "1", "2", "3", "4", "5",
                     "6", "7", "8", "9"}

\* [0-9] of the regular expression
IsDigit(c) == c \in {"0", "1", "2", "3", "4", "5", "6", "7", "8", "9"}

\* s[:n] for 0 <= n
Take(s, n) == SubSeq(s, 1, IF n < Len(s) THEN n ELSE Len(s))

\* s[:-1]
DropLast(s) == SubSeq(s, 1, Len(s) - 1)

IsPrefix(p, s) == Len(p) <= Len(s) /\ SubSeq(s, 1, Len(p)) = p

-----------------------------------------------------------------------------
(* _normalise_id: re.sub("^t[0-9]_", "", raw_id). *)

\* whether "^t[0-9]_" matches at the start of s
HasTypeTag(s) ==
    /\ Len(s) >= 3
    /\ s[1] = "t"
    /\ IsDigit(s[2])
    /\ s[3] = "_"

\* a regular expression that forgets the digit class: "^t._"
NormaliseIdAnyTag(s) ==
    IF Len(s) >= 3 /\ s[1] = "t" /\ s[3] = "_"
    THEN SubSeq(s, 4, Len(s))
    ELSE s

\* the one match at the start of the string is replaced by ""
_normalise_id(s) ==
    IF HasTypeTag(s) THEN SubSeq(s, 4, Len(s)) ELSE s

IdInit ==
    /\ raw_id \in SeqsUpTo(IdChars, MaxIdLen)
    /\ id_runs = <<>>

IdIdle ==
    /\ raw_id = <<>>
    /\ id_runs = <<>>

\* one more application of _normalise_id to the latest value
NormaliseId ==
    /\ Len(id_runs) < 2
    /\ id_runs' = Append(id_runs,
                         _normalise_id(IF id_runs = <<>> THEN raw_id
                                       ELSE id_runs[Len(id_runs)]))
    /\ UNCHANGED <<raw_id, nvars, tvars, svars>>

-----------------------------------------------------------------------------
(* normalise_comment and trim. *)

\* the raw ids the records carry
RecordIds == {<<"t", "3", "_", "a">>, <<"a">>}

NormInit ==
    /\ raw \in [body : SeqsUpTo(BodyChars, MaxBodyLen),
                link_id : RecordIds,
                parent_id : RecordIds]
    /\ max_length \in 1..MaxMaxLength
    /\ text = <<>>
    /\ npc = "call"
    /\ comment = NoValue

NormIdle ==
    /\ raw = [body |-> <<>>, link_id |-> <<>>, parent_id |-> <<>>]
    /\ max_length = 1
    /\ text = <<>>
    /\ npc = "idle"
    /\ comment = NoValue

\* trim, lines 120-123: the early return, or the cut to max_length + 1
TrimEntry ==
    /\ npc = "call"
    /\ IF Len(raw.body) <= max_length
       THEN /\ text' = raw.body
            /\ npc' = "returned"
       ELSE /\ text' = Take(raw.body, max_length + 1)
            /\ npc' = "loop"
    /\ UNCHANGED <<raw, max_length, comment, ivars, tvars, svars>>

\* trim, lines 127-128: one evaluation of the while condition, and the body.
\* text[-2] of a one-character string raises IndexError.
TrimLoop ==
    /\ npc = "loop"
    /\ IF text = <<>>
       THEN /\ npc' = "cut"
            /\ text' = text
       ELSE IF Len(text) < 2
       THEN /\ npc' = "IndexError"
            /\ text' = text
       ELSE IF isalnum(text[Len(text)]) = isalnum(text[Len(text) - 1])
       THEN /\ npc' = "loop"
            /\ text' = DropLast(text)
       ELSE /\ npc' = "cut"
            /\ text' = text
    /\ UNCHANGED <<raw, max_length, comment, ivars, tvars, svars>>

\* trim, line 130
TrimReturn ==
    /\ npc = "cut"
    /\ text' = DropLast(text)
    /\ npc' = "returned"
    /\ UNCHANGED <<raw, max_length, comment, ivars, tvars, svars>>

\* line 107
BodyIsTrimmed(body, trimmed) == Len(body) > max_length

\* normalise_comment, lines 102-110, once trim has returned
NormaliseReturn ==
    /\ npc = "returned"
    /\ comment' = [thread_id |-> _normalise_id(raw.link_id),
                   parent_id |-> _normalise_id(raw.parent_id),
                   body |-> text,
                   body_is_trimmed |-> BodyIsTrimmed(raw.body, text)]
    /\ npc' = "done"
    /\ UNCHANGED <<raw, max_length, text, ivars, tvars, svars>>

NormNext ==
    \/ TrimEntry
    \/ TrimLoop
    \/ TrimReturn
    \/ NormaliseReturn

-----------------------------------------------------------------------------
(* Threads. *)

\* the parent_id of a comment whose parent is not a comment of the thread
\* (the thread's post itself)
Outside == 0

\* distinct bodies that pass every filter
PlainBodies == <<"comment one", "comment two", "comment three",
                 "comment four", "comment five", "comment six">>

PlainBody(k) == PlainBodies[((k - 1) % Len(PlainBodies)) + 1]

\* body and body_is_trimmed as normalise_comment may leave them: a kept body,
\* a trimmed one, the two placeholders, a short one
CommentTexts == {
    [body |-> "hello world", body_is_trimmed |-> FALSE],
    [body |-> "hello world", body_is_trimmed |-> TRUE],
    [body |-> "[deleted]", body_is_trimmed |-> FALSE],
    [body |-> "[removed]", body_is_trimmed |-> FALSE],
    [body |-> "hi", body_is_trimmed |-> FALSE] }

\* the values of --min_length drawn: the default, and one above "hello world"
MinLengths == {9, 12}

Comment(id, parent_id, t) ==
    [id |-> id, thread_id |-> "abc", parent_id |-> parent_id,
     body |-> t.body, body_is_trimmed |-> t.body_is_trimmed,
     author |-> id, subreddit |-> "tla"]

\* Threads of every shape, cycles of parent references included.  The ids are
\* the comments' positions in the iteration order of the thread, so that
\* every pairing of a shape with an order is one of these.
ShapeThreads ==
    UNION { { [k \in 1..n |->
                 Comment(k, par[k],
                         [body |-> PlainBody(k), body_is_trimmed |-> FALSE])]
              : par \in [1..n -> 0..n] }
            : n \in 1..NumComments }

\* Forests in which replies follow their parents, with every choice of bodies.
TextThreads ==
    UNION { { [k \in 1..n |-> Comment(k, f[k].parent_id, f[k].t)]
              : f \in { g \in [1..n -> [parent_id : 0..(n - 1), t : CommentTexts]]
                        : \A k \in 1..n : g[k].parent_id < k } }
            : n \in 1..NumTextComments }

\* create_examples, line 145: {comment.id: comment for comment in list(thread)}
IdToComment(t) ==
    [i \in {t[k].id : k \in DOMAIN t} |->
        t[CHOOSE k \in DOMAIN t :
            t[k].id = i /\ \A j \in DOMAIN t : t[j].id = i => j <= k]]

CommentOf(i) == id_to_comment[i]

\* the keys of id_to_comment, in the order of id_to_comment.items()
CommentIds == [k \in DOMAIN thread |-> thread[k].id]

\* line 188: comment.parent_id not in id_to_comment
IsRoot(i) == CommentOf(i).parent_id \notin DOMAIN id_to_comment

\* lines 185-187: the children of p, in iteration order
ChildrenOf(p) == SelectSeq(CommentIds, LAMBDA c : CommentOf(c).parent_id = p)

\* s[-n:] for n >= 1
LastN(s, n) == SubSeq(s, IF Len(s) > n THEN Len(s) - n + 1 ELSE 1, Len(s))

\* s[index] for a negative index succeeds
ValidIndex(s, index) == Len(s) + index + 1 >= 1

\* s[index] for a negative index
At(s, index) == s[Len(s) + index + 1]

\* line 201 without the window
NewPathWhole(path, child_id) == Append(path, child_id)

\* line 201 with the window one too short
NewPathShort(path, child_id) ==
    Append(IF parent_depth = 1 THEN path ELSE LastN(path, parent_depth - 1),
           child_id)

\* line 201 appending the parent again
NewPathOfLast(path, child_id) ==
    Append(LastN(path, parent_depth), path[Len(path)])

\* line 201: path[-parent_depth:] + [child_id]
NewPath(path, child_id) == Append(LastN(path, parent_depth), child_id)

\* line 204 keeping the old work-list
NextPathsKept(old, new) == old

\* line 204: paths = new_paths
NextPaths(old, new) == new

\* _should_skip without the placeholder test
ShouldSkipNoPlaceholder(c) ==
    \/ c.body_is_trimmed
    \/ Len(c.body) < min_length

\* lines 133-140
_should_skip(c) ==
    \/ c.body_is_trimmed
    \/ c.body \in {"[deleted]", "[removed]"}
    \/ Len(c.body) < min_length

\* line 165 starting one element too late
ContextIndexOffByOne(i) == -2 - i

\* line 165: extra contexts start at index -3
ContextIndex(i) == -3 - i

\* lines 163-173: the context/i features, i |-> body, from i on
RECURSIVE ExtraContexts(_, _)
ExtraContexts(linear_path, i) ==
    IF i >= parent_depth - 1 THEN <<>>
    ELSE IF ~ ValidIndex(linear_path, ContextIndex(i)) THEN <<>>
    ELSE (i :> CommentOf(At(linear_path, ContextIndex(i))).body)
            @@ ExtraContexts(linear_path, i + 1)

\* lines 155-175: the features of the example of a path
Example(linear_path) ==
    LET response == CommentOf(At(linear_path, -1))
        context == CommentOf(At(linear_path, -2))
    IN  [subreddit |-> response.subreddit,
         thread_id |-> response.thread_id,
         context_author |-> context.author,
         response_author |-> response.author,
         context |-> context.body,
         response |-> response.body,
         extra |-> ExtraContexts(linear_path, 0)]

\* lines 151-152
SkipsPath(linear_path) ==
    \/ _should_skip(CommentOf(At(linear_path, -1)))
    \/ _should_skip(CommentOf(At(linear_path, -2)))

ThreadStart ==
    /\ parent_depth \in 1..MaxParentDepth
    /\ tpc = "start"
    /\ id_to_children = <<>>
    /\ seen_ids = {}
    /\ paths = <<>>
    /\ new_paths = <<>>
    /\ path_idx = 0
    /\ child_idx = 0
    /\ emitted = <<>>
    /\ examples = <<>>

ShapeInit ==
    /\ thread \in ShapeThreads
    /\ id_to_comment = IdToComment(thread)
    /\ min_length = 9
    /\ ThreadStart

TextInit ==
    /\ thread \in TextThreads
    /\ id_to_comment = IdToComment(thread)
    /\ min_length \in MinLengths
    /\ ThreadStart

ThreadInit == ShapeInit \/ TextInit

ThreadIdle ==
    /\ thread = <<>>
    /\ id_to_comment = <<>>
    /\ parent_depth = 1
    /\ min_length = 1
    /\ tpc = "idle"
    /\ id_to_children = <<>>
    /\ seen_ids = {}
    /\ paths = <<>>
    /\ new_paths = <<>>
    /\ path_idx = 0
    /\ child_idx = 0
    /\ emitted = <<>>
    /\ examples = <<>>

\* linear_paths, lines 183-190
Seed ==
    /\ tpc = "start"
    /\ id_to_children' =
          [p \in DOMAIN id_to_comment
                    \cup {thread[k].parent_id : k \in DOMAIN thread}
              |-> ChildrenOf(p)]
    /\ LET roots == SelectSeq(CommentIds, IsRoot)
       IN  /\ paths' = [k \in DOMAIN roots |-> <<roots[k]>>]
           /\ seen_ids' = {roots[k] : k \in DOMAIN roots}
    /\ tpc' = "while"
    /\ UNCHANGED <<thread, id_to_comment, parent_depth, min_length,
                   new_paths, path_idx, child_idx, emitted, examples, nvars,
                   ivars, svars>>

\* line 192, and line 193 when the loop goes on
WhileTest ==
    /\ tpc = "while"
    /\ IF paths = <<>>
       THEN /\ tpc' = "done"
            /\ UNCHANGED <<new_paths, path_idx, child_idx>>
       ELSE /\ tpc' = "for"
            /\ new_paths' = <<>>
            /\ path_idx' = 1
            /\ child_idx' = 1
    /\ UNCHANGED <<thread, id_to_comment, parent_depth, min_length,
                   id_to_children, seen_ids, paths, emitted, examples, nvars,
                   ivars, svars>>

\* lines 196-203: one child of the current path; the yield runs the body of
\* create_examples' loop (lines 148-175) on the new path
ForChild ==
    /\ tpc = "for"
    /\ path_idx <= Len(paths)
    /\ LET path == paths[path_idx]
           children == id_to_children[path[Len(path)]]
       IN  /\ child_idx <= Len(children)
           /\ LET child_id == children[child_idx]
                  new_path == NewPath(path, child_id)
              IN  IF child_id \in seen_ids
                  THEN /\ tpc' = tpc
                       /\ UNCHANGED <<seen_ids, new_paths, emitted, examples>>
                  ELSE /\ seen_ids' = seen_ids \cup {child_id}
                       /\ new_paths' = Append(new_paths, new_path)
                       /\ emitted' = Append(emitted, new_path)
                       /\ IF ~ ValidIndex(new_path, -2)
                          THEN /\ tpc' = "IndexError"
                               /\ examples' = examples
                          ELSE /\ tpc' = tpc
                               /\ examples' =
                                    IF SkipsPath(new_path) THEN examples
                                    ELSE Append(examples,
                                                [of_path |-> Len(emitted) + 1,
                                                 features |-> Example(new_path)])
    /\ child_idx' = child_idx + 1
    /\ UNCHANGED <<thread, id_to_comment, parent_depth, min_length,
                   id_to_children, paths, path_idx, nvars, ivars, svars>>

\* line 194: the children of the current path are exhausted
ForPath ==
    /\ tpc = "for"
    /\ path_idx <= Len(paths)
    /\ child_idx > Len(id_to_children[paths[path_idx][Len(paths[path_idx])]])
    /\ path_idx' = path_idx + 1
    /\ child_idx' = 1
    /\ UNCHANGED <<thread, id_to_comment, parent_depth, min_length, tpc,
                   id_to_children, seen_ids, paths, new_paths, emitted,
                   examples, nvars, ivars, svars>>

\* line 204
EndRound ==
    /\ tpc = "for"
    /\ path_idx > Len(paths)
    /\ paths' = NextPaths(paths, new_paths)
    /\ tpc' = "while"
    /\ UNCHANGED <<thread, id_to_comment, parent_depth, min_length,
                   id_to_children, seen_ids, new_paths, path_idx, child_idx,
                   emitted, examples, nvars, ivars, svars>>

ThreadNext ==
    \/ Seed
    \/ WhileTest
    \/ ForChild
    \/ ForPath
    \/ EndRound

-----------------------------------------------------------------------------
(* _shuffle and _TrainTestSplitFn. *)

\* line 233: num_buckets=4096
num_buckets == 4096

\* hashlib.md5 is a library: for the byte strings hashed here, the low 16
\* bits of int(md5.hexdigest(), 16).  num_buckets divides 2^16, so these
\* decide md5_digest % num_buckets.
Md5Low16 ==
    ("abc" :> 32626) @@
    ("q1" :> 21434) @@
    ("zz" :> 7310) @@
    ("abchello world" :> 51705) @@
    ("abccomment one" :> 21706) @@
    ("q1hello world" :> 45026) @@
    ("q1comment one" :> 59227) @@
    ("zzhello world" :> 49070) @@
    ("zzcomment one" :> 23405)

\* the serialized examples of the stream: tf.train.Example is a library, and
\* an example stands for its serialization
SplitExamples == [thread_id : {"abc", "q1", "zz"},
                  response : {"hello world", "comment one"}]

\* --train_split: the default 0.9, and 0.5
TrainSplits == {[num |-> 9, den |-> 10], [num |-> 1, den |-> 2]}

Orders(n) ==
    {f \in [1..n -> 1..n] : \A i, j \in 1..n : i # j => f[i] # f[j]}

\* the bytes hashed, were the whole example hashed
HashedBytesOfExample(example) == example.thread_id \o example.response

\* lines 242-243, 253: the bytes hashed are the thread_id feature
HashedBytes(example) == example.thread_id

\* lines 250-258: the value (1 + md5_digest % num_buckets) / num_buckets, as
\* a fraction
_split_value(bytes) ==
    [num |-> 1 + (Md5Low16[bytes] % num_buckets), den |-> num_buckets]

\* a < b for fractions of positive denominators
Less(a, b) == a.num * b.den < b.num * a.den

\* lines 238-248
process(serialized_example) ==
    LET split_value == _split_value(HashedBytes(serialized_example))
    IN  IF Less(split_value, train_split) THEN "train" ELSE "test"

SplitInit ==
    /\ stream \in SeqsUpTo(SplitExamples, MaxStream)
    /\ train_split \in TrainSplits
    /\ pass = "original"
    /\ order = [i \in 1..Len(stream) |-> i]
    /\ pos = 1
    /\ tagged = {}

SplitIdle ==
    /\ stream = <<>>
    /\ train_split = [num |-> 9, den |-> 10]
    /\ pass = "idle"
    /\ order = <<>>
    /\ pos = 1
    /\ tagged = {}

\* _TrainTestSplitFn.process on the next example of this pass
Process ==
    /\ pass \in {"original", "shuffled"}
    /\ pos <= Len(order)
    /\ tagged' = tagged \cup {[pass |-> pass, index |-> order[pos],
                               tag |-> process(stream[order[pos]])]}
    /\ pos' = pos + 1
    /\ UNCHANGED <<stream, train_split, pass, order, nvars, ivars, tvars>>

\* _shuffle, lines 213-219: the random keys put the stream in any order
Shuffle ==
    /\ pass = "original"
    /\ pos > Len(order)
    /\ order' \in Orders(Len(stream))
    /\ pass' = "shuffled"
    /\ pos' = 1
    /\ UNCHANGED <<stream, train_split, tagged, nvars, ivars, tvars>>

SplitNext ==
    \/ Process
    \/ Shuffle

-----------------------------------------------------------------------------
(* Properties of the normaliser. *)

\* what C4 asks of a finished call on a body longer than max_length
TrimmedAtBoundary ==
    /\ npc = "done"
    /\ IsPrefix(comment.body, raw.body)
    /\ Len(comment.body) <= max_length
    /\ comment.body # <<>> =>
          ~ (/\ isalnum(raw.body[Len(comment.body)])
             /\ isalnum(raw.body[Len(comment.body) + 1]))
    /\ comment.body_is_trimmed

\* C4: for every body longer than max_length, trim returns a prefix of the
\* body of length at most max_length whose cut does not fall inside a run of
\* alphanumeric characters, and normalise_comment sets body_is_trimmed.
C4_TrimCutsAtWordBoundary ==
    (npc \in {"done", "IndexError"} /\ Len(raw.body) > max_length)
        => TrimmedAtBoundary

\* Whenever trim does return on a long body, the result is as C4 describes.
TrimContractWhenReturned ==
    (npc = "done" /\ Len(raw.body) > max_length) => TrimmedAtBoundary

\* A body no longer than max_length is kept verbatim and not flagged.
ShortBodyKept ==
    (npc = "done" /\ Len(raw.body) <= max_length)
        => (comment.body = raw.body /\ ~ comment.body_is_trimmed)

\* C5: normalise_comment, and trim inside it, never raises an error on a
\* record of strings and a positive max_length.
C5_NormaliserNeverRaises == npc # "IndexError"

\* C9 as stated: for every raw id, normalising twice equals normalising once.
C9_NormaliseIdIdempotent ==
    Len(id_runs) = 2 => id_runs[2] = id_runs[1]

\* C9 amended: an id without a leading t<digit>_ tag is returned unchanged,
\* and normalising twice equals normalising once exactly when the
\* once-normalised id does not itself start with such a tag.
C9_IdempotentUnlessTagsStacked ==
    /\ (Len(id_runs) >= 1 /\ ~ HasTypeTag(raw_id)) => id_runs[1] = raw_id
    /\ Len(id_runs) = 2 =>
          (id_runs[2] = id_runs[1] <=> ~ HasTypeTag(id_runs[1]))

\* t1_a and t3_a have been normalised twice, to a both times
C9_Witness ==
    /\ Len(id_runs) = 2
    /\ raw_id \in {<<"t", "1", "_", "a">>, <<"t", "3", "_", "a">>}
    /\ id_runs = <<(<<"a">>), (<<"a">>)>>

-----------------------------------------------------------------------------
(* Properties of linear_paths and create_examples.  They speak of the       *)
(* thread through parent_id alone, not through the paths built.            *)

LastOf(p) == p[Len(p)]

\* the paths emitted so far, as a set
EmittedPaths == {emitted[k] : k \in DOMAIN emitted}

\* how many emitted paths end in comment i
TimesLast(i) == Cardinality({k \in DOMAIN emitted : LastOf(emitted[k]) = i})

\* the comment of id i: the ids of a thread are its positions
InThread(i) == thread[i]

\* whether the parent of comment i is a comment of the thread
HasParent(i) == \E k \in DOMAIN thread : thread[k].id = InThread(i).parent_id

\* the comment reached from i by following parent_id k times; Outside if the
\* chain leaves the thread first
RECURSIVE AncestorOf(_, _)
AncestorOf(i, k) ==
    IF k = 0 THEN i
    ELSE IF ~ HasParent(i) THEN Outside
    ELSE AncestorOf(InThread(i).parent_id, k - 1)

\* following parent_id from i arrives at a root within k steps
RECURSIVE ReachesRootIn(_, _)
ReachesRootIn(i, k) ==
    IF ~ HasParent(i) THEN TRUE
    ELSE IF k = 0 THEN FALSE
    ELSE ReachesRootIn(InThread(i).parent_id, k - 1)

\* following parent_id from i arrives at a root
ReachesRoot(i) == ReachesRootIn(i, Len(thread))

\* the filter as the specification words it
Excluded(c) ==
    \/ c.body_is_trimmed = TRUE
    \/ c.body = "[deleted]"
    \/ c.body = "[removed]"
    \/ Len(c.body) < min_length

ExamplesOf(k) == {j \in DOMAIN examples : examples[j].of_path = k}

\* C1: an example is emitted for a path exactly when neither its response
\* (last comment) nor its context (second to last) is trimmed, a bare
\* [deleted] or [removed], or shorter than min_length; so no example has such
\* a comment as its context or response.
C1_ExampleIffBothPass ==
    /\ \A k \in DOMAIN emitted :
          LET ok == /\ ~ Excluded(CommentOf(At(emitted[k], -1)))
                    /\ ~ Excluded(CommentOf(At(emitted[k], -2)))
          IN  Cardinality(ExamplesOf(k)) = IF ok THEN 1 ELSE 0
    /\ \A j \in DOMAIN examples :
          /\ examples[j].features.response \notin {"[deleted]", "[removed]"}
          /\ examples[j].features.context \notin {"[deleted]", "[removed]"}
          /\ Len(examples[j].features.response) >= min_length
          /\ Len(examples[j].features.context) >= min_length

\* a path was dropped only because its response is a bare [deleted] at least
\* min_length long, and another path gave an example
C1_Witness ==
    /\ examples # <<>>
    /\ \E k \in DOMAIN emitted :
          /\ ExamplesOf(k) = {}
          /\ CommentOf(At(emitted[k], -1)).body = "[deleted]"
          /\ Len("[deleted]") >= min_length
          /\ ~ Excluded(CommentOf(At(emitted[k], -2)))

\* C2 as stated: once linear_paths is exhausted, every comment whose parent
\* is a comment of the thread is the last element of exactly one path.
C2_EveryReplyEndsOnePath ==
    tpc = "done" =>
        \A i \in DOMAIN id_to_comment : HasParent(i) => TimesLast(i) = 1

\* C2 amended: no comment ends more than one path; a root, and a comment from
\* which following parent_id never arrives at a root (it lies on or below a
\* cycle of parent references), ends none; once linear_paths is exhausted
\* every other comment ends exactly one.
C2_ReplyBelowRootEndsOnePath ==
    \A i \in DOMAIN id_to_comment :
        /\ TimesLast(i) <= 1
        /\ (~ HasParent(i) \/ ~ ReachesRoot(i)) => TimesLast(i) = 0
        /\ (tpc = "done" /\ HasParent(i) /\ ReachesRoot(i)) => TimesLast(i) = 1

\* exhausted on a thread with a reply below a root and a comment on a cycle
C2_Witness ==
    /\ tpc = "done"
    /\ \E i \in DOMAIN id_to_comment :
          HasParent(i) /\ ReachesRoot(i) /\ TimesLast(i) = 1
    /\ \E i \in DOMAIN id_to_comment :
          HasParent(i) /\ ~ ReachesRoot(i) /\ TimesLast(i) = 0

\* C6: every emitted path has at least 2 and at most parent_depth + 1
\* elements, and create_examples' linear_path[-1] and linear_path[-2] succeed.
C6_PathLengthBounds ==
    /\ \A k \in DOMAIN emitted :
          Len(emitted[k]) >= 2 /\ Len(emitted[k]) <= parent_depth + 1
    /\ tpc # "IndexError"

\* a path of full length whose oldest element still has a parent in the
\* thread: the window has dropped an ancestor
C6_Witness ==
    \E k \in DOMAIN emitted :
        /\ Len(emitted[k]) = parent_depth + 1
        /\ HasParent(emitted[k][1])

\* C7: in every example, context is the body of the response's parent, and
\* context/i is present exactly when i <= parent_depth - 2 and the response
\* has an (i+2)-th ancestor in the thread, whose body it then holds.
C7_ContextsAreAncestors ==
    \A j \in DOMAIN examples :
        LET f == examples[j].features
            r == LastOf(emitted[examples[j].of_path])
        IN  /\ AncestorOf(r, 1) # Outside
            /\ f.context = CommentOf(AncestorOf(r, 1)).body
            /\ f.response = CommentOf(r).body
            /\ \A i \in (DOMAIN f.extra) \cup (0..Len(thread)) :
                  /\ i \in DOMAIN f.extra <=>
                        (i >= 0 /\ i <= parent_depth - 2
                            /\ AncestorOf(r, i + 2) # Outside)
                  /\ i \in DOMAIN f.extra =>
                        f.extra[i] = CommentOf(AncestorOf(r, i + 2)).body

\* an example with context/0 and context/1, of bodies different from each
\* other and from context
C7_Witness ==
    \E j \in DOMAIN examples :
        /\ DOMAIN examples[j].features.extra = {0, 1}
        /\ examples[j].features.extra[0] # examples[j].features.extra[1]
        /\ examples[j].features.extra[0] # examples[j].features.context

\* C8: linear_paths terminates on every finite comment set, malformed
\* parent references included: the work-list empties and nothing is raised.
C8_LinearPathsTerminates == <>(tpc = "done")

\* exhausted on a thread with a root, a comment that is its own parent and
\* two comments that are each other's parent
C8_Witness ==
    /\ tpc = "done"
    /\ \E i \in DOMAIN id_to_comment : ~ HasParent(i)
    /\ \E i \in DOMAIN id_to_comment : CommentOf(i).parent_id = i
    /\ \E i, j \in DOMAIN id_to_comment :
          i # j /\ CommentOf(i).parent_id = j /\ CommentOf(j).parent_id = i

\* the thread is the single chain A -> B -> C -> D
IsChain(A, B, C, D) ==
    /\ DOMAIN id_to_comment = {A, B, C, D}
    /\ Cardinality({A, B, C, D}) = 4
    /\ ~ HasParent(A)
    /\ CommentOf(B).parent_id = A
    /\ CommentOf(C).parent_id = B
    /\ CommentOf(D).parent_id = C

\* C10 as stated: on the chain with parent_depth = 2 the paths are [A,B],
\* [B,C] and [C,D].
C10_ChainPathsArePairs ==
    (tpc = "done" /\ parent_depth = 2 /\ Len(thread) = 4) =>
        \A A, B, C, D \in DOMAIN id_to_comment :
            IsChain(A, B, C, D) =>
                /\ Len(emitted) = 3
                /\ EmittedPaths = {<<A, B>>, <<B, C>>, <<C, D>>}

\* C10 amended: on the chain with parent_depth = 2 the paths are [A,B],
\* [A,B,C] and [B,C,D], in this order: a path keeps up to parent_depth
\* ancestors before its last comment.
C10_ChainPathsKeepWindow ==
    (tpc = "done" /\ parent_depth = 2 /\ Len(thread) = 4) =>
        \A A, B, C, D \in DOMAIN id_to_comment :
            IsChain(A, B, C, D) =>
                emitted = <<(<<A, B>>), (<<A, B, C>>), (<<B, C, D>>)>>

C10_Witness ==
    /\ tpc = "done"
    /\ parent_depth = 2
    /\ \E A, B, C, D \in DOMAIN id_to_comment : IsChain(A, B, C, D)
    /\ Len(emitted) = 3

\* C3: the tag is a function of the thread_id alone: two tagged examples
\* of one thread_id carry the same tag, and an example carries the same tag
\* after the shuffle as in the original order.
C3_TagDependsOnThreadIdOnly ==
    \A a, b \in tagged :
        stream[a.index].thread_id = stream[b.index].thread_id => a.tag = b.tag

\* both passes are over, the shuffle has changed the order, two different
\* examples share a thread_id, and both tags occur
C3_Witness ==
    /\ pass = "shuffled"
    /\ pos > Len(order)
    /\ \E i \in DOMAIN order : order[i] # i
    /\ \E a, b \in tagged :
          /\ stream[a.index] # stream[b.index]
          /\ stream[a.index].thread_id = stream[b.index].thread_id
    /\ \E a, b \in tagged : a.tag = "train" /\ b.tag = "test"

-----------------------------------------------------------------------------
(* Specifications. *)

NormaliseInit == NormInit /\ IdIdle /\ ThreadIdle /\ SplitIdle

\* normalise_comment on every raw record within the bounds
SpecNormalise == NormaliseInit /\ [][NormNext]_vars

NormaliseIdInit == IdInit /\ NormIdle /\ ThreadIdle /\ SplitIdle

\* _normalise_id applied once and twice to every raw id within the bounds
SpecId == NormaliseIdInit /\ [][NormaliseId]_vars

Init == ThreadInit /\ NormIdle /\ IdIdle /\ SplitIdle

\* create_examples on every thread within the bounds
Spec == Init /\ [][ThreadNext]_vars

PathsInit == ShapeInit /\ NormIdle /\ IdIdle /\ SplitIdle

\* linear_paths, driven until it is exhausted, on every thread shape
FairSpec == PathsInit /\ [][ThreadNext]_vars /\ WF_vars(ThreadNext)

TrainTestInit == SplitInit /\ NormIdle /\ IdIdle /\ ThreadIdle

\* every stream within the bounds, split as it is and split after _shuffle
SpecSplit == TrainTestInit /\ [][SplitNext]_vars

=============================================================================
